---- MODULE Spec2Model ----
(***************************************************************************)
(* Model of services/__init__.py of holo: the rate-limited, cached request *)
(* primitive (Requestable.request) and the lazily built handler registries *)
(* (service handlers and link/info handlers).                              *)
(***************************************************************************)
EXTENDS Integers, Sequences, FiniteSets, TLC

(***************************************************************************)
(* Python values.  An optional value is a sequence of length 0 or 1.       *)
(***************************************************************************)
None == <<>>

Some(x) == <<x>>

(***************************************************************************)
(* Bounds of the model.                                                    *)
(***************************************************************************)
\* clock ticks per second: the resolution at which perf_counter() is read
TicksPerSecond == 2

\* number of rate-limit intervals the clock may run in Spec
MaxIntervals == 3

\* URLs requested in Spec
MaxUrl == 2

\* revisions of the configuration handed to setup_services
MaxRev == 2

\* cap on the handler objects constructed per family
MaxConstructed == 6

\* requests beyond the cache capacity made in SpecLRU
MaxExtra == 2

\* the times (ticks) one transport call may take
Durations == {0, 1}

(***************************************************************************)
(* Program constants.                                                      *)
(***************************************************************************)
\* Requestable.rate_limit_wait, in seconds
rate_limit_wait == 1

\* lru_cache(maxsize=100)
maxsize == 100

\* the interval w of rate_limit(wait_length), in ticks
wait_length == rate_limit_wait * TicksPerSecond

(***************************************************************************)
(* The registry: handler families and their keys.                          *)
(***************************************************************************)
ServiceKeys == {"crunchyroll", "funimation"}

LinkKeys == {"myanimelist", "anidb"}

Families == {"service", "link"}

FamilyKeys(fam) == IF fam = "service" THEN ServiceKeys ELSE LinkKeys

\* config.services: a mapping from some handler keys to their option dicts
\* (a dict is the set of its items)
ConfigChoices ==
    { [k \in D |-> {<<"rev", v>>}] :
        D \in {{}, {"crunchyroll", "anidb"}, ServiceKeys \cup LinkKeys},
        v \in 1..MaxRev }

VARIABLES
    _service_configs,  \* None, or Some(mapping key -> options)
    _services,         \* None, or Some(mapping key -> handler instance)
    _link_sites,       \* None, or Some(mapping key -> handler instance)
    constructed,       \* family -> number of handler objects constructed so far
    reg_ret,           \* outcome of the last registry call
    now,               \* the clock perf_counter() reads
    last_time,         \* the rate limiter's nonlocal last_time
    cache,             \* the lru_cache of request, least recently used first
    pc,                \* position of the caller inside request
    cur,               \* the call in flight: None or Some([self, args])
    r,                 \* the value the wrapped request returned: None or Some(result)
    ret,               \* outcome of the last finished request call
    log,               \* what the last (or current) request call did, in order
    used,              \* history: the cache keys ever used, least recently used first
    caller,            \* history: None, or Some(id of the handler request was last called on)
    th                 \* the callers of SpecConc: thread -> its position in request and its locals

regvars == <<_service_configs, _services, _link_sites, constructed, reg_ret>>

reqvars == <<now, last_time, cache, pc, cur, r, ret, log, used, caller, th>>

vars == <<_service_configs, _services, _link_sites, constructed, reg_ret,
          now, last_time, cache, pc, cur, r, ret, log, used, caller, th>>

(***************************************************************************)
(* Registry                                                                *)
(***************************************************************************)
\* AbstractServiceHandler.__init__ / AbstractInfoHandler.__init__: a new object,
\* identified by its family and its construction serial number; config is None;
\* sets is history: the number of calls of set_config on the object
NewHandler(fam, key, serial) ==
    [id |-> <<fam, serial>>, key |-> key, name |-> key, config |-> None, sets |-> 0]

\* set_config(config)
set_config(handler, config) ==
    [handler EXCEPT !.config = Some(config), !.sets = @ + 1]

\* _get_service_config(key): "key in _service_configs" raises TypeError when
\* _service_configs is still None
get_service_config_raises == _service_configs = None

_get_service_config(key) ==
    IF key \in DOMAIN _service_configs[1] THEN _service_configs[1][key] ELSE {}

\* _make_service(service)
_make_service(service) == set_config(service, _get_service_config(service.key))

\* the order in which the handlers of a family are listed (and constructed)
HandlerList(fam) ==
    IF fam = "service" THEN <<"crunchyroll", "funimation">>
    ELSE <<"myanimelist", "anidb">>

Index(s, x) == CHOOSE i \in 1..Len(s) : s[i] = x

\* mutant of ensure_needed: the handlers are built on every call
ensure_needed_always(mapping) == TRUE

\* the guard of _ensure_*_handlers: construct only while the mapping is None
ensure_needed(mapping) == mapping = None

\* the body of _ensure_service_handlers / _ensure_link_handlers: the mapping of
\* the family afterwards, the objects constructed, and whether TypeError is raised
ensure(fam, mapping) ==
    IF ~ensure_needed(mapping)
    THEN [mapping |-> mapping, built |-> 0, raises |-> FALSE]
    ELSE IF get_service_config_raises
    THEN [mapping |-> mapping, built |-> Len(HandlerList(fam)), raises |-> TRUE]
    ELSE [mapping |->
            Some([k \in FamilyKeys(fam) |->
                    _make_service(NewHandler(fam, k,
                        constructed[fam] + Index(HandlerList(fam), k)))]),
          built |-> Len(HandlerList(fam)), raises |-> FALSE]

FamilyMapping(fam) == IF fam = "service" THEN _services ELSE _link_sites

\* how a registry call ended: the function called, its family ("" for
\* setup_services), its argument (None for a call without one, else Some(arg)),
\* kind "return" or "raise", and the value returned
Returned(op, fam, arg, kind, val) ==
    [op |-> op, fam |-> fam, arg |-> arg, kind |-> kind, val |-> val]

\* mutant of setup_services: the new configuration is injected again into the
\* handlers already registered
setup_services_reinject(config) ==
    LET inject(m) ==
            IF m = None THEN m
            ELSE Some([k \in DOMAIN m[1] |->
                         set_config(m[1][k], IF k \in DOMAIN config THEN config[k] ELSE {})]) IN
    /\ _service_configs' = Some(config)
    /\ reg_ret' = Returned("setup_services", "", None, "return", None)
    /\ _services' = inject(_services)
    /\ _link_sites' = inject(_link_sites)
    /\ UNCHANGED constructed
    /\ UNCHANGED reqvars

\* setup_services(config)
setup_services(config) ==
    /\ _service_configs' = Some(config)
    /\ reg_ret' = Returned("setup_services", "", None, "return", None)
    /\ UNCHANGED <<_services, _link_sites, constructed>>
    /\ UNCHANGED reqvars

\* the effect of a registry call on the family's mapping and on the count of
\* constructed objects
Ensured(fam, e) ==
    /\ constructed[fam] + e.built <= MaxConstructed
    /\ constructed' = [constructed EXCEPT ![fam] = @ + e.built]
    /\ IF fam = "service"
       THEN _services' = e.mapping /\ UNCHANGED _link_sites
       ELSE _link_sites' = e.mapping /\ UNCHANGED _services
    /\ UNCHANGED _service_configs
    /\ UNCHANGED reqvars

\* get_service_handlers() / get_link_handlers()
get_handlers(fam) ==
    LET e == ensure(fam, FamilyMapping(fam)) IN
    /\ Ensured(fam, e)
    /\ reg_ret' = IF e.raises
                  THEN Returned("get_handlers", fam, None, "raise", None)
                  ELSE Returned("get_handlers", fam, None, "return", e.mapping)

\* the lookup of get_service_handler(service) / get_link_handler(link_site):
\* arg is None or Some(key of the service / link site given)
lookup(arg, mapping) ==
    IF arg # None /\ arg[1] \in DOMAIN mapping[1]
    THEN Some(mapping[1][arg[1]])
    ELSE None

\* get_service_handler(service) / get_link_handler(link_site)
get_handler(fam, arg) ==
    LET e == ensure(fam, FamilyMapping(fam)) IN
    /\ Ensured(fam, e)
    /\ reg_ret' = IF e.raises
                  THEN Returned("get_handler", fam, Some(arg), "raise", None)
                  ELSE Returned("get_handler", fam, Some(arg), "return",
                                lookup(arg, e.mapping))

(***************************************************************************)
(* Requesting: the arguments of request, the transport and the decoders    *)
(***************************************************************************)
\* a proxy argument: its Python type and, for a sized value, its items
NoProxy == [type |-> "NoneType", items |-> <<>>]

Proxy(type, items) == [type |-> type, items |-> items]

\* a list is unhashable; every other argument value modelled is hashable
Hashable(proxy) == proxy.type # "list"

\* len(proxy) raises TypeError for a value without a length
HasLen(proxy) == proxy.type \in {"tuple", "list", "str"}

\* the arguments of one call of request (self apart)
Args(url, json, xml, html, proxy, useragent) ==
    [url |-> url, json |-> json, xml |-> xml, html |-> html,
     proxy |-> proxy, useragent |-> useragent, auth |-> None]

\* what requests.get does: it raises, or returns a response
Raises == [raises |-> TRUE, status_code |-> 0, text |-> ""]

Response(status_code, text) ==
    [raises |-> FALSE, status_code |-> status_code, text |-> text]

\* Response.ok: the status is no client or server error
ok(response) == response.status_code < 400

Bodies == {"{}", "<a/>", "plain"}

\* the bodies the JSON parser and the XML parser accept
JsonBodies == {"{}"}

XmlBodies == {"<a/>"}

\* the results of request: None, or a decoded payload
NoneResult == [kind |-> "None", body |-> ""]

Payload(kind, body) == [kind |-> kind, body |-> body]

\* response.json(): the parsed value, or JSONDecodeError
response_json(text) ==
    IF text \in JsonBodies
    THEN [exc |-> "", val |-> Payload("json", text)]
    ELSE [exc |-> "JSONDecodeError", val |-> NoneResult]

\* xml_parser.fromstring(response.text): the root element, or ParseError
xml_fromstring(text) ==
    IF text \in XmlBodies
    THEN [exc |-> "", val |-> Payload("xml", text)]
    ELSE [exc |-> "ParseError", val |-> NoneResult]

\* BeautifulSoup(response.text, 'html.parser'): parses any text
BeautifulSoup(text) == [exc |-> "", val |-> Payload("html", text)]

\* lines 63-69: the proxies handed to the transport, or TypeError from len()
proxy_step(proxy) ==
    IF proxy.type = "NoneType" THEN [exc |-> "", proxies |-> None]
    ELSE IF ~HasLen(proxy) THEN [exc |-> "TypeError", proxies |-> None]
    ELSE IF Len(proxy.items) # 2 THEN [exc |-> "", proxies |-> None]
    ELSE [exc |-> "",
          proxies |-> Some([http |-> <<"http://", proxy.items[1], ":", proxy.items[2]>>])]

\* mutant of status_failed: 204 is taken for a success
status_failed_no_204(response) == ~ok(response)

\* lines 77-79: the response is an error for request
status_failed(response) == ~ok(response) \/ response.status_code = 204

\* mutant of decode_step: the JSONDecodeError is not caught
decode_step_uncaught(args, response) ==
    IF args.json THEN
        LET j == response_json(response.text) IN
        [ran |-> <<"json">>, exc |-> j.exc, val |-> j.val]
    ELSE IF args.xml THEN
        LET x == xml_fromstring(response.text) IN
        [ran |-> <<"xml">>, exc |-> x.exc, val |-> x.val]
    ELSE IF args.html THEN
        LET h == BeautifulSoup(response.text) IN
        [ran |-> <<"html">>, exc |-> "", val |-> h.val]
    ELSE [ran |-> <<>>, exc |-> "", val |-> Payload("text", response.text)]

\* mutant of decode_step: the xml flag is tested before the json flag
decode_step_xml_first(args, response) ==
    IF args.xml THEN
        LET x == xml_fromstring(response.text) IN
        [ran |-> <<"xml">>, exc |-> x.exc, val |-> x.val]
    ELSE IF args.json THEN
        LET j == response_json(response.text) IN
        [ran |-> <<"json">>, exc |-> "", val |-> IF j.exc = "" THEN j.val ELSE NoneResult]
    ELSE IF args.html THEN
        LET h == BeautifulSoup(response.text) IN
        [ran |-> <<"html">>, exc |-> "", val |-> h.val]
    ELSE [ran |-> <<>>, exc |-> "", val |-> Payload("text", response.text)]

\* lines 81-99: the decoder chosen by the flags, and what it yields;
\* a JSONDecodeError is caught and becomes None
decode_step(args, response) ==
    IF args.json THEN
        LET j == response_json(response.text) IN
        [ran |-> <<"json">>, exc |-> "", val |-> IF j.exc = "" THEN j.val ELSE NoneResult]
    ELSE IF args.xml THEN
        LET x == xml_fromstring(response.text) IN
        [ran |-> <<"xml">>, exc |-> x.exc, val |-> x.val]
    ELSE IF args.html THEN
        LET h == BeautifulSoup(response.text) IN
        [ran |-> <<"html">>, exc |-> "", val |-> h.val]
    ELSE [ran |-> <<>>, exc |-> "", val |-> Payload("text", response.text)]

\* the wrapped body of request (lines 63-99) given what the transport does:
\* sent is None or Some(the proxies passed to requests.get), ran the decoders run,
\* exc the exception that leaves the body ("" when it returns), val its result
request_body(args, response) ==
    LET p == proxy_step(args.proxy) IN
    IF p.exc # ""
    THEN [sent |-> None, ran |-> <<>>, exc |-> p.exc, val |-> NoneResult]
    ELSE IF response.raises
    THEN [sent |-> Some(p.proxies), ran |-> <<>>, exc |-> "ConnectionError",
          val |-> NoneResult]
    ELSE IF status_failed(response)
    THEN [sent |-> Some(p.proxies), ran |-> <<>>, exc |-> "", val |-> NoneResult]
    ELSE LET d == decode_step(args, response) IN
         [sent |-> Some(p.proxies), ran |-> d.ran, exc |-> d.exc, val |-> d.val]

(***************************************************************************)
(* lru_cache(maxsize=100): entries in order of use, least recent first     *)
(***************************************************************************)
\* mutant of CacheKey: the key is made of the arguments alone
CacheKey_args_only(self, args) == <<<<"", 0>>, args>>

\* the key of a call: the handler object (by identity) and the arguments
CacheKey(self, args) == <<self.id, args>>

\* mutant of lru_find: the lookup never finds the key
lru_find_never(c, key) == 0

\* the position of key in the cache, 0 when it is absent
lru_find(c, key) ==
    IF \E i \in 1..Len(c) : c[i].key = key
    THEN CHOOSE i \in 1..Len(c) : c[i].key = key
    ELSE 0

\* mutant of lru_hit: a hit leaves the order alone (first in, first out)
lru_hit_no_move(c, i) == c

\* a hit makes the entry the most recently used
lru_hit(c, i) ==
    [j \in 1..Len(c) |-> IF j < i THEN c[j] ELSE IF j < Len(c) THEN c[j + 1] ELSE c[i]]

\* mutant of lru_store: an absence (None) is not stored
lru_store_skip_none(c, key, val) ==
    LET e == [key |-> key, val |-> val] IN
    IF val = [kind |-> "None", body |-> ""] THEN c
    ELSE IF Len(c) >= maxsize THEN Append(Tail(c), e) ELSE Append(c, e)

\* a miss stores the result; a full cache first drops its least recently used entry
lru_store(c, key, val) ==
    LET e == [key |-> key, val |-> val] IN
    IF Len(c) >= maxsize THEN Append(Tail(c), e) ELSE Append(c, e)

CacheKeys(c) == { c[i].key : i \in 1..Len(c) }

\* the history of uses: a lookup that hits and a store both use the key
Touch(u, key) == SelectSeq(u, LAMBDA k : k # key) \o <<key>>

(***************************************************************************)
(* request = lru_cache(rate_limit(request body))                           *)
(***************************************************************************)
\* the handler objects the registry holds
Registered ==
    (IF _services = None THEN {} ELSE { _services[1][k] : k \in DOMAIN _services[1] })
    \cup
    (IF _link_sites = None THEN {} ELSE { _link_sites[1][k] : k \in DOMAIN _link_sites[1] })

\* what a finished call did: kind is "return" or "raise"; sent and resp are None
\* when the transport was not called
Outcome(key, kind, exc, val, sent, resp) ==
    Some([key |-> key, kind |-> kind, exc |-> exc, val |-> val, sent |-> sent,
          resp |-> resp])

\* mutant of request: the decorators swapped, so that the rate limiter wraps the
\* cache and a hit waits and records its completion time as well
request_limited_outside(self, args) ==
    LET key == CacheKey(self, args)
        i == lru_find(cache, key)
        diff == now - last_time
        t == IF diff < wait_length THEN now + (wait_length - diff) ELSE now IN
    /\ pc = "idle"
    /\ self \in Registered
    /\ caller' = Some(self.id)
    /\ IF i # 0
       THEN /\ cache' = lru_hit(cache, i)
            /\ ret' = Outcome(key, "return", "", cache[i].val, None, None)
            /\ log' = <<"hash", "hit">>
            /\ used' = Touch(used, key)
            /\ now' = t
            /\ last_time' = t
            /\ UNCHANGED <<pc, cur>>
       ELSE /\ pc' = "rate_limited"
            /\ cur' = Some([self |-> self, args |-> args])
            /\ log' = <<"hash", "miss">>
            /\ UNCHANGED <<cache, ret, used, now, last_time>>
    /\ UNCHANGED <<r, th>>
    /\ UNCHANGED regvars

\* line 49, entering the lru_cache wrapper: hashing the arguments raises TypeError
\* for an unhashable one; a hit returns the stored result; a miss calls the
\* rate-limited function
request(self, args) ==
    LET key == CacheKey(self, args)
        i == lru_find(cache, key) IN
    /\ pc = "idle"
    /\ self \in Registered
    /\ caller' = Some(self.id)
    /\ IF ~Hashable(args.proxy)
       THEN /\ ret' = Outcome(key, "raise", "TypeError", NoneResult, None, None)
            /\ log' = <<"hash">>
            /\ UNCHANGED <<cache, pc, cur, used>>
       ELSE IF i # 0
       THEN /\ cache' = lru_hit(cache, i)
            /\ ret' = Outcome(key, "return", "", cache[i].val, None, None)
            /\ log' = <<"hash", "hit">>
            /\ used' = Touch(used, key)
            /\ UNCHANGED <<pc, cur>>
       ELSE /\ pc' = "rate_limited"
            /\ cur' = Some([self |-> self, args |-> args])
            /\ log' = <<"hash", "miss">>
            /\ UNCHANGED <<cache, ret, used>>
    /\ UNCHANGED <<now, last_time, r, th>>
    /\ UNCHANGED regvars

\* mutant of sleep_needed: the comparison inverted
sleep_needed_inverted(diff) == diff > wait_length

\* line 38: sleep(wait_length - diff) when the last recorded time is too recent
sleep_needed(diff) == diff < wait_length

\* lines 36-38: read the clock (elapsed ticks have passed since it was last read),
\* and sleep for the rest of the interval
rate_limited(elapsed) ==
    LET t == now + elapsed
        diff == t - last_time IN
    /\ pc = "rate_limited"
    /\ IF sleep_needed(diff)
       THEN now' = t + (wait_length - diff) /\ log' = log \o <<"perf_counter", "sleep">>
       ELSE now' = t /\ log' = log \o <<"perf_counter">>
    /\ pc' = "f"
    /\ UNCHANGED <<last_time, cache, cur, r, ret, used, caller, th>>
    /\ UNCHANGED regvars

\* mutant of call_f: the completion time is recorded in a finally clause, so an
\* exception of the wrapped request moves last_time as well
call_f_finally(response, dur) ==
    LET c == cur[1]
        b == request_body(c.args, response)
        events == (IF b.sent # None THEN <<"get">> ELSE <<>>) \o b.ran IN
    /\ pc = "f"
    /\ now' = IF b.sent # None THEN now + dur ELSE now
    /\ log' = log \o <<"f">> \o events
    /\ IF b.exc # ""
       THEN /\ pc' = "idle"
            /\ cur' = None
            /\ ret' = Outcome(CacheKey(c.self, c.args), "raise", b.exc, NoneResult,
                              b.sent, IF b.sent # None THEN Some(response) ELSE None)
            /\ last_time' = now'
            /\ UNCHANGED r
       ELSE /\ pc' = "return"
            /\ r' = Some([val |-> b.val, sent |-> b.sent, resp |-> Some(response)])
            /\ UNCHANGED <<cur, ret, last_time>>
    /\ UNCHANGED <<cache, used, caller, th>>
    /\ UNCHANGED regvars

\* line 40: r = f(*args, **kwargs), the body of request; the transport takes dur
\* ticks; an exception leaves rate_limited and the lru_cache wrapper at once
call_f(response, dur) ==
    LET c == cur[1]
        b == request_body(c.args, response)
        events == (IF b.sent # None THEN <<"get">> ELSE <<>>) \o b.ran IN
    /\ pc = "f"
    /\ now' = IF b.sent # None THEN now + dur ELSE now
    /\ log' = log \o <<"f">> \o events
    /\ IF b.exc # ""
       THEN /\ pc' = "idle"
            /\ cur' = None
            /\ ret' = Outcome(CacheKey(c.self, c.args), "raise", b.exc, NoneResult,
                              b.sent, IF b.sent # None THEN Some(response) ELSE None)
            /\ UNCHANGED r
       ELSE /\ pc' = "return"
            /\ r' = Some([val |-> b.val, sent |-> b.sent, resp |-> Some(response)])
            /\ UNCHANGED <<cur, ret>>
    /\ UNCHANGED <<last_time, cache, used, caller, th>>
    /\ UNCHANGED regvars

\* mutant of record: the completion time is not written
record_stale(t) == last_time

\* line 41: last_time = perf_counter()
record(t) == t

\* lines 41-42, then the lru_cache wrapper stores the result and returns it
rate_limited_return ==
    LET c == cur[1]
        key == CacheKey(c.self, c.args) IN
    /\ pc = "return"
    /\ last_time' = record(now)
    /\ cache' = lru_store(cache, key, r[1].val)
    /\ ret' = Outcome(key, "return", "", r[1].val, r[1].sent, r[1].resp)
    /\ used' = Touch(used, key)
    /\ log' = log \o <<"record", "store">>
    /\ pc' = "idle"
    /\ cur' = None
    /\ r' = None
    /\ UNCHANGED <<now, caller, th>>
    /\ UNCHANGED regvars

(***************************************************************************)
(* request called from several threads: each thread runs the same code,    *)
(* step by step; last_time and the cache are shared, the clock runs on its *)
(* own.  No step takes a lock (lines 34-42 have none).                     *)
(***************************************************************************)
Threads == {1, 2}

\* a thread outside request; seen, start and overlap are history: the last_time
\* the wait check read, the time the transport call started, and whether the
\* call was in flight (between its wait check and its write of last_time)
\* while the other thread made its wait check, or the other way round
ThreadIdle ==
    [pc |-> "idle", call |-> None, wake |-> 0, seen |-> 0, start |-> None,
     overlap |-> FALSE, r |-> None]

seqvars == <<pc, cur, r, ret, log, caller>>

\* the threads between the wait check and the write of last_time
InFlight == { t \in Threads : th[t].pc \in {"sleep", "f", "get", "return"} }

\* line 49: the lru_cache wrapper entered by thread t
thread_request(t, self, args) ==
    LET key == CacheKey(self, args)
        i == lru_find(cache, key) IN
    /\ th[t].pc = "idle"
    /\ self \in Registered
    /\ IF i # 0
       THEN /\ cache' = lru_hit(cache, i)
            /\ used' = Touch(used, key)
            /\ UNCHANGED th
       ELSE /\ th' = [th EXCEPT ![t] = [ThreadIdle EXCEPT
                         !.pc = "rate_limited",
                         !.call = Some([self |-> self, args |-> args])]]
            /\ UNCHANGED <<cache, used>>
    /\ UNCHANGED <<now, last_time>>
    /\ UNCHANGED seqvars
    /\ UNCHANGED regvars

\* lines 36-38: thread t reads the clock and last_time, and decides to sleep
thread_rate_limited(t) ==
    LET diff == now - last_time
        others == InFlight \ {t} IN
    /\ th[t].pc = "rate_limited"
    /\ th' = [x \in Threads |->
                IF x = t
                THEN [th[t] EXCEPT
                        !.pc = IF sleep_needed(diff) THEN "sleep" ELSE "f",
                        !.wake = IF sleep_needed(diff) THEN now + (wait_length - diff) ELSE now,
                        !.seen = last_time,
                        !.overlap = others # {}]
                ELSE IF x \in others THEN [th[x] EXCEPT !.overlap = TRUE]
                ELSE th[x]]
    /\ UNCHANGED <<now, last_time, cache, used>>
    /\ UNCHANGED seqvars
    /\ UNCHANGED regvars

\* line 38: sleep(wait_length - diff) returns once that time has passed
thread_sleep(t) ==
    /\ th[t].pc = "sleep"
    /\ now >= th[t].wake
    /\ th' = [th EXCEPT ![t].pc = "f"]
    /\ UNCHANGED <<now, last_time, cache, used>>
    /\ UNCHANGED seqvars
    /\ UNCHANGED regvars

\* line 40 and line 75: thread t calls f, which calls requests.get
thread_f(t) ==
    /\ th[t].pc = "f"
    /\ th' = [th EXCEPT ![t].pc = "get", ![t].start = Some(now)]
    /\ UNCHANGED <<now, last_time, cache, used>>
    /\ UNCHANGED seqvars
    /\ UNCHANGED regvars

\* lines 75-99: requests.get answers and f returns or raises
thread_get(t, response) ==
    LET b == request_body(th[t].call[1].args, response) IN
    /\ th[t].pc = "get"
    /\ th' = IF b.exc # ""
             THEN [th EXCEPT ![t].pc = "idle", ![t].call = None]
             ELSE [th EXCEPT ![t].pc = "return", ![t].r = Some(b.val)]
    /\ UNCHANGED <<now, last_time, cache, used>>
    /\ UNCHANGED seqvars
    /\ UNCHANGED regvars

\* the lru_cache wrapper stores a result unless the key has been stored meanwhile
lru_store_once(c, key, val) == IF lru_find(c, key) # 0 THEN c ELSE lru_store(c, key, val)

\* lines 41-42: thread t writes last_time; the lru_cache wrapper stores the result
thread_return(t) ==
    LET c == th[t].call[1]
        key == CacheKey(c.self, c.args) IN
    /\ th[t].pc = "return"
    /\ last_time' = record(now)
    /\ cache' = lru_store_once(cache, key, th[t].r[1])
    /\ used' = Touch(used, key)
    /\ th' = [th EXCEPT ![t].pc = "idle", ![t].call = None, ![t].r = None, ![t].wake = 0]
    /\ UNCHANGED now
    /\ UNCHANGED seqvars
    /\ UNCHANGED regvars

\* the clock advances by one tick
tick ==
    /\ now' = now + 1
    /\ UNCHANGED <<last_time, cache, used, th>>
    /\ UNCHANGED seqvars
    /\ UNCHANGED regvars

\* the keys a caller may look up: the known ones, one unknown, and null
LookupArgs == {None} \cup { Some(k) : k \in ServiceKeys \cup LinkKeys \cup {"unknown"} }

RegInit ==
    /\ _service_configs = None
    /\ _services = None
    /\ _link_sites = None
    /\ constructed = [fam \in Families |-> 0]
    /\ reg_ret = Returned("none", "", None, "none", None)

ReqInit ==
    /\ now = 0
    /\ last_time = 0
    /\ cache = <<>>
    /\ pc = "idle"
    /\ cur = None
    /\ r = None
    /\ ret = None
    /\ log = <<>>
    /\ used = <<>>
    /\ caller = None
    /\ th = [t \in Threads |-> ThreadIdle]

Init == RegInit /\ ReqInit

\* the registry under any order of calls
NextRegistry ==
    \/ \E config \in ConfigChoices : setup_services(config)
    \/ \E fam \in Families : get_handlers(fam)
    \/ \E fam \in Families, arg \in LookupArgs : get_handler(fam, arg)

SpecRegistry == Init /\ [][NextRegistry]_vars

(***************************************************************************)
(* Spec: a single-threaded client that sets the configuration up, takes    *)
(* the handlers from the registry and makes plain-text requests through    *)
(* them.                                                                   *)
(***************************************************************************)
SpecConfig == [k \in ServiceKeys \cup LinkKeys |-> {<<"rev", 1>>}]

SpecArgs == { Args(url, FALSE, FALSE, FALSE, NoProxy, None) : url \in 1..MaxUrl }

\* what the transport may do for each URL
SpecResponses ==
    [url \in 1..MaxUrl |-> {Raises, Response(200, "plain"), Response(404, "plain")}]

\* the clock runs for MaxIntervals rate-limit intervals
MaxClock == MaxIntervals * wait_length + 1

\* the steps of a request call; the clock stops at horizon
Call(handlers, argset) ==
    \E self \in handlers, args \in argset : request(self, args)

Wait(elapsedset, horizon) ==
    \E elapsed \in elapsedset : rate_limited(elapsed) /\ now' <= horizon

Fetch(responses, durs, horizon) ==
    /\ pc = "f"
    /\ \E response \in responses[cur[1].args.url], dur \in durs :
           call_f(response, dur) /\ now' <= horizon

Next ==
    \/ _service_configs = None /\ setup_services(SpecConfig)
    \/ _service_configs # None /\ get_handlers("service")
    \/ Call(Registered, SpecArgs)
    \/ Wait(0..wait_length, MaxClock)
    \/ Fetch(SpecResponses, Durations, MaxClock)
    \/ rate_limited_return

Spec == Init /\ [][Next]_vars

(***************************************************************************)
(* SpecFetch: one request with every combination of the output flags, of   *)
(* the proxy values and of what the transport answers.                     *)
(***************************************************************************)
FetchProxies ==
    { NoProxy,
      Proxy("tuple", <<"host", "8080">>),
      Proxy("tuple", <<"host">>),
      Proxy("tuple", <<"host", "8080", "x">>),
      Proxy("list", <<"host", "8080", "x">>),
      Proxy("str", <<"h", "p">>),
      Proxy("int", <<>>) }

FetchArgs ==
    { Args(1, json, xml, html, proxy, Some("holo")) :
        json \in BOOLEAN, xml \in BOOLEAN, html \in BOOLEAN, proxy \in FetchProxies }

FetchResponses ==
    [url \in {1} |->
        {Raises} \cup { Response(status, text) : status \in {200, 204, 404}, text \in Bodies }]

FetchHandlers == { h \in Registered : h.key = "crunchyroll" }

\* the clock runs until one request has completed
FetchClock == wait_length + 1

NextFetch ==
    \/ _service_configs = None /\ setup_services(SpecConfig)
    \/ _service_configs # None /\ _services = None /\ get_handlers("service")
    \/ Call(FetchHandlers, FetchArgs)
    \/ Wait({0, wait_length}, FetchClock)
    \/ Fetch(FetchResponses, Durations, FetchClock)
    \/ rate_limited_return

SpecFetch == Init /\ [][NextFetch]_vars

(***************************************************************************)
(* SpecLRU: one handler requests the URLs 1, 2, 3, ... in turn, asking for *)
(* URL 1 again at any time, until the cache has overflowed.  URL 1 answers *)
(* 404, every other URL 200.                                               *)
(***************************************************************************)
LRUUrls == 1..(maxsize + MaxExtra)

LRUArgs(url) == Args(url, FALSE, FALSE, FALSE, NoProxy, None)

LRUHandlers == { h \in Registered : h.key = "crunchyroll" }

\* the next URL never requested so far
NextUrl == Len(used) + 1

LRUResponses ==
    [url \in LRUUrls |->
        IF url = 1 THEN {Response(404, "plain")} ELSE {Response(200, "plain")}]

LRUClock == (maxsize + MaxExtra) * wait_length

NextLRU ==
    \/ _service_configs = None /\ setup_services(SpecConfig)
    \/ _service_configs # None /\ _services = None /\ get_handlers("service")
    \/ Call(LRUHandlers, {LRUArgs(url) : url \in {1, NextUrl} \cap LRUUrls})
    \/ Wait({0}, LRUClock)
    \/ Fetch(LRUResponses, {0}, LRUClock)
    \/ rate_limited_return

SpecLRU == Init /\ [][NextLRU]_vars

(***************************************************************************)
(* SpecRaise: one handler requests one URL as text and as XML; the         *)
(* transport raises or answers 200 with a body that is or is not XML.      *)
(***************************************************************************)
RaiseArgs == { Args(1, FALSE, xml, FALSE, NoProxy, None) : xml \in BOOLEAN }

RaiseResponses ==
    [url \in {1} |-> {Raises, Response(200, "plain"), Response(200, "<a/>")}]

NextRaise ==
    \/ _service_configs = None /\ setup_services(SpecConfig)
    \/ _service_configs # None /\ _services = None /\ get_handlers("service")
    \/ Call(FetchHandlers, RaiseArgs)
    \/ Wait(0..wait_length, MaxClock)
    \/ Fetch(RaiseResponses, Durations, MaxClock)
    \/ rate_limited_return

SpecRaise == Init /\ [][NextRaise]_vars

(***************************************************************************)
(* SpecShared: two handlers share the cache.  One requests URL 1 at any    *)
(* time; the other requests the URLs 1, 2, 3, ... in turn until the cache  *)
(* has overflowed.                                                         *)
(***************************************************************************)
SharedA == { h \in Registered : h.key = "funimation" }

SharedB == { h \in Registered : h.key = "crunchyroll" }

\* the next URL the second handler has not requested so far
NextUrlB == Len(SelectSeq(used, LAMBDA k : k[1] \in { h.id : h \in SharedB })) + 1

NextShared ==
    \/ _service_configs = None /\ setup_services(SpecConfig)
    \/ _service_configs # None /\ _services = None /\ get_handlers("service")
    \/ Call(SharedA, {LRUArgs(1)})
    \/ Call(SharedB, {LRUArgs(url) : url \in {NextUrlB} \cap LRUUrls})
    \/ Wait({0}, LRUClock)
    \/ Fetch(LRUResponses, {0}, LRUClock)
    \/ rate_limited_return

SpecShared == Init /\ [][NextShared]_vars

(***************************************************************************)
(* SpecConc: two threads make requests through one handler; the transport  *)
(* answers every request.                                                  *)
(***************************************************************************)
ConcResponses == [url \in 1..MaxUrl |-> {Response(200, "plain")}]

\* the clock runs for two rate-limit intervals
ConcClock == 2 * wait_length

NextConc ==
    \/ _service_configs = None /\ setup_services(SpecConfig)
    \/ _service_configs # None /\ _services = None /\ get_handlers("service")
    \/ \E t \in Threads, self \in FetchHandlers, args \in SpecArgs : thread_request(t, self, args)
    \/ \E t \in Threads : thread_rate_limited(t)
    \/ \E t \in Threads : thread_sleep(t)
    \/ \E t \in Threads : thread_f(t)
    \/ \E t \in Threads :
           /\ th[t].pc = "get"
           /\ \E response \in ConcResponses[th[t].call[1].args.url] : thread_get(t, response)
    \/ \E t \in Threads : thread_return(t)
    \/ now < ConcClock /\ tick

SpecConc == Init /\ [][NextConc]_vars

(***************************************************************************)
(* Properties                                                              *)
(***************************************************************************)
InLog(e) == \E i \in 1..Len(log) : log[i] = e

\* the key of the call in flight after a step
KeyOfCur == CacheKey(cur[1].self, cur[1].args)

\* a step in which a call of request on key misses the cache
Misses(key) == pc = "idle" /\ pc' = "rate_limited" /\ KeyOfCur' = key

\* a step in which a call of request hits the cache
Hits == pc = "idle" /\ pc' = "idle" /\ log' = <<"hash", "hit">> /\ UNCHANGED regvars

\* C1 (rate limiting): the wrapped request starts no earlier than the interval
\* wait_length after the last recorded completion time; the completion time is
\* recorded only once the wrapped request has returned, as the time read then;
\* so two recorded completions are never closer together than wait_length.
C1_RateLimit ==
    /\ [](pc = "f" => now - last_time >= wait_length)
    /\ [][last_time' # last_time =>
            /\ pc = "return"
            /\ last_time' = now'
            /\ last_time' - last_time >= wait_length]_vars

\* a second cache miss is about to call the wrapped request after having slept
\* up to exactly one interval after the first recorded completion
C1_Witness ==
    /\ pc = "f"
    /\ last_time > 0
    /\ InLog("sleep")
    /\ now - last_time = wait_length

C3_CompositionOrder ==
    /\ [][Hits => (now' = now /\ last_time' = last_time /\ ret'[1].sent = None)]_vars
    /\ [](Len(log) >= 2 /\ log[2] = "hit" => Len(log) = 2)
    /\ [](\A i \in 1..Len(log) : log[i] = "get" =>
              /\ log[2] = "miss"
              /\ \E j \in 1..(i - 1) : log[j] = "perf_counter")
    /\ [](pc = "f" => now - last_time >= wait_length)

\* a cache hit returned while a call through the rate limiter would have slept
C3_Witness ==
    /\ pc = "idle"
    /\ log = <<"hash", "hit">>
    /\ last_time > 0
    /\ now - last_time < wait_length

\* the n most recently used keys of the history u
LastN(u, n) == { u[i] : i \in { j \in 1..Len(u) : j > Len(u) - n } }

\* C4 (cache bound): the cache never holds more than maxsize = 100 entries; it
\* holds exactly the (up to) 100 most recently used keys, used meaning stored or
\* hit; and a store into a full cache removes exactly one entry, the least
\* recently used one, and leaves every other entry as it was.
C4_CacheBound ==
    /\ [](Len(cache) <= maxsize /\ Cardinality(CacheKeys(cache)) = Len(cache))
    /\ [](CacheKeys(cache) = LastN(used, maxsize))
    /\ [][(Len(cache) = maxsize /\ pc = "return") =>
            /\ Len(cache') = maxsize
            /\ CacheKeys(cache) \ CacheKeys(cache') = {used[Len(used) - maxsize + 1]}
            /\ \A i \in 1..Len(cache) :
                   cache[i].key \in CacheKeys(cache') => \E j \in 1..Len(cache') : cache'[j] = cache[i]
            /\ cache'[Len(cache')].key = KeyOfCur]_vars

\* the 101st distinct URL has been stored in a full cache: URL 1, hit in the
\* meantime, is still present and URL 2, the least recently used, is gone
C4_Witness ==
    /\ pc = "idle"
    /\ Len(cache) = maxsize
    /\ Len(used) = maxsize + 1
    /\ \E i \in 1..Len(cache) : cache[i].key[2].url = 1
    /\ \A i \in 1..Len(cache) : cache[i].key[2].url # 2

\* C5 (failures are sticky): once a call has returned None for a failed fetch
\* (URL 1 answers 404), every later call with the same arguments is a cache hit
\* that returns None without calling the transport, as long as fewer than
\* maxsize = 100 other distinct keys have been used since that key was last
\* stored or hit; no recently used key ever misses.
C5_StickyFailure ==
    /\ [][\A k \in LastN(used, maxsize) : ~Misses(k)]_vars
    /\ [][(Hits /\ ret'[1].key[2].url = 1) =>
            /\ ret'[1].kind = "return"
            /\ ret'[1].val = NoneResult
            /\ ret'[1].sent = None]_vars
    /\ [](pc = "idle" /\ ret # None /\ ret[1].kind = "return" =>
            \E i \in 1..Len(cache) : cache[i].key = ret[1].key /\ cache[i].val = ret[1].val)

\* the failed URL 1 is answered None from the full cache, 99 other URLs having
\* been stored since it failed
C5_Witness ==
    /\ pc = "idle"
    /\ log = <<"hash", "hit">>
    /\ ret[1].key[2].url = 1
    /\ ret[1].val = NoneResult
    /\ Len(cache) = maxsize

\* the last finished call reached the transport, which answered with a response
Answered == pc = "idle" /\ ret # None /\ ret[1].resp # None /\ ~ret[1].resp[1].raises

\* C6 as stated (propagation policy): whatever the transport and the decoders
\* do, the call returns a payload or None; the one exception that reaches the
\* caller is the parser failure on malformed XML when xml decoding is selected.
C6_Original ==
    (pc = "idle" /\ ret # None /\ ret[1].sent # None /\ ret[1].kind = "raise") =>
        /\ ret[1].exc = "ParseError"
        /\ ret[1].key[2].xml /\ ~ret[1].key[2].json
        /\ ret[1].resp[1].text \notin XmlBodies

\* C7 (status handling): a response that is not OK, or whose status is 204,
\* makes request return None whatever the body and the output flags, and no
\* decoder is run.
C7_StatusHandling ==
    (Answered /\ (ret[1].resp[1].status_code >= 400 \/ ret[1].resp[1].status_code = 204)) =>
        /\ ret[1].kind = "return"
        /\ ret[1].val = NoneResult
        /\ ~InLog("json") /\ ~InLog("xml") /\ ~InLog("html")

\* a 204 response with a JSON body, json selected, has been answered with None
C7_Witness ==
    /\ Answered
    /\ ret[1].resp[1].status_code = 204
    /\ ret[1].resp[1].text = "{}"
    /\ ret[1].key[2].json
    /\ ret[1].val = NoneResult

\* C8 (JSON decode failure): an OK response that is not 204, with json selected
\* and a body that is not valid JSON, makes request return None; no exception
\* reaches the caller.
C8_JsonDecodeFailure ==
    (/\ Answered
     /\ ret[1].resp[1].status_code < 400 /\ ret[1].resp[1].status_code # 204
     /\ ret[1].key[2].json
     /\ ret[1].resp[1].text \notin JsonBodies) =>
        /\ ret[1].kind = "return"
        /\ ret[1].exc = ""
        /\ ret[1].val = NoneResult

\* json (and xml as well) selected, status 200, and an XML body: None is returned
C8_Witness ==
    /\ Answered
    /\ ret[1].resp[1].status_code = 200
    /\ ret[1].resp[1].text = "<a/>"
    /\ ret[1].key[2].json /\ ret[1].key[2].xml
    /\ ret[1].kind = "return"
    /\ ret[1].val = NoneResult
    /\ InLog("json")

\* C9 as stated (proxy validation): a call that is no cache hit reaches the
\* transport whatever the proxy: with {"http": "http://host:port"} for a
\* (host, port) pair, with no proxy for an absent proxy and for any other value.
C9_Original ==
    (pc = "idle" /\ ret # None /\ log # <<"hash", "hit">>) =>
        LET proxy == ret[1].key[2].proxy IN
        IF proxy.type = "tuple" /\ Len(proxy.items) = 2
        THEN ret[1].sent =
                Some(Some([http |-> <<"http://", proxy.items[1], ":", proxy.items[2]>>]))
        ELSE ret[1].sent = Some(None)

\* C10 (registry singleton and immutability): once the mapping of a family is
\* populated no call changes it, so no handler is re-created, replaced or removed;
\* and a lookup by key returns the instance the mapping holds.
C10_RegistryImmutable ==
    /\ [][/\ _services # None => _services' = _services
          /\ _link_sites # None => _link_sites' = _link_sites]_vars
    /\ [](reg_ret.op = "get_handler" /\ reg_ret.kind = "return" /\ reg_ret.val # None =>
            reg_ret.val[1] \in Registered)

\* both mappings are populated, the configuration has been replaced since, and a
\* lookup by key has just returned the instance built before that
C10_Witness ==
    /\ _services # None
    /\ _link_sites # None
    /\ reg_ret.op = "get_handler"
    /\ reg_ret.val # None
    /\ reg_ret.val[1].config # Some(_get_service_config(reg_ret.val[1].key))

\* C11 as stated (construction at most once): over any sequence of calls of
\* setup_services and of the get_* functions, the handlers of each family are
\* constructed at most once: no more objects than the family has handlers.
C11_Original == \A fam \in Families : constructed[fam] <= Len(HandlerList(fam))

\* C12 (config write-once): every handler the registry holds or hands out has
\* had set_config called on it exactly once, before it was registered; and no
\* later call, setup_services included, changes the config of a registered handler.
C12_ConfigWriteOnce ==
    /\ [](\A h \in Registered : h.config # None /\ h.sets = 1)
    /\ []((reg_ret.op = "get_handler" /\ reg_ret.val # None) =>
            (reg_ret.val[1].config # None /\ reg_ret.val[1].sets = 1))
    /\ [][/\ _services # None =>
                \A k \in ServiceKeys : _services'[1][k].config = _services[1][k].config
          /\ _link_sites # None =>
                \A k \in LinkKeys : _link_sites'[1][k].config = _link_sites[1][k].config]_vars

\* setup_services has just replaced the configuration, and a registered handler
\* still holds the options it was given when it was constructed
C12_Witness ==
    /\ reg_ret.op = "setup_services"
    /\ _services # None
    /\ \E k \in ServiceKeys :
           /\ _services[1][k].sets = 1
           /\ _services[1][k].config # Some(_get_service_config(k))

\* C13 as stated (missing configuration never errors): whatever the state of
\* the process-wide configuration when the registry is first used, no registry
\* call ends in an error.
C13_Original ==
    reg_ret.op \in {"get_handlers", "get_handler"} => reg_ret.kind = "return"

\* C14 as stated (lookup of an unknown or null key): get_service_handler and
\* get_link_handler, called with null or with a key the family does not have,
\* return None and never an error.
C14_Original ==
    (/\ reg_ret.op = "get_handler"
     /\ (reg_ret.arg[1] = None \/ reg_ret.arg[1][1] \notin FamilyKeys(reg_ret.fam))) =>
        (reg_ret.kind = "return" /\ reg_ret.val = None)

\* C15 as stated (rate limiting is per handler): a cache miss through one
\* handler is never made to sleep by a request that has just completed through
\* a different handler.
C15_Original ==
    [][(/\ pc = "rate_limited" /\ pc' = "f"
        /\ ret # None /\ ret[1].kind = "return" /\ ret[1].sent # None
        /\ ret[1].key[1] # cur[1].self.id) => ~InLog("sleep")']_vars

\* C16 as stated (first call never waits): the first cache miss of the process
\* calls the wrapped request without sleeping, whatever the clock reads then.
C16_Original == (pc = "f" /\ ret = None) => ~InLog("sleep")

\* the decoders the last call ran, in order
DecodersRun == SelectSeq(log, LAMBDA e : e \in {"json", "xml", "html"})

\* C18 (decode selection): for an OK response that is not 204, exactly one
\* decoder is applied, the first whose flag is set in the order json, xml, html,
\* for every combination of the flags; with no flag set no decoder runs and the
\* body text is returned as it is.
C18_DecodeSelection ==
    (Answered /\ ret[1].resp[1].status_code < 400 /\ ret[1].resp[1].status_code # 204) =>
        LET a == ret[1].key[2]
            text == ret[1].resp[1].text IN
        IF a.json
        THEN /\ DecodersRun = <<"json">>
             /\ ret[1].val \in {Payload("json", text), NoneResult}
        ELSE IF a.xml
        THEN /\ DecodersRun = <<"xml">>
             /\ ret[1].kind = "return" => ret[1].val = Payload("xml", text)
        ELSE IF a.html
        THEN /\ DecodersRun = <<"html">>
             /\ ret[1].val = Payload("html", text)
        ELSE /\ DecodersRun = <<>>
             /\ ret[1].kind = "return"
             /\ ret[1].val = Payload("text", text)

\* json, xml and html all selected and a body both parsers would take apart
\* differently: the JSON decoder alone has run and its value is returned
C18_Witness ==
    /\ Answered
    /\ ret[1].resp[1].status_code = 200
    /\ ret[1].resp[1].text = "{}"
    /\ ret[1].key[2].json /\ ret[1].key[2].xml /\ ret[1].key[2].html
    /\ ret[1].val = Payload("json", "{}")
    /\ DecodersRun = <<"json">>

\* C19 (an exception leaves no trace): when the wrapped request raises (the
\* transport raises, or the XML parser on a malformed body), the cache and
\* last_time stay as they were; the key is not cached, so the next identical
\* call is a miss that goes to the transport again; and the time a miss sleeps
\* until is last_time, the time recorded by the last call that returned, plus
\* the interval.
C19_RaiseLeavesNoTrace ==
    /\ [][(pc = "f" /\ pc' = "idle") =>
            /\ ret'[1].kind = "raise"
            /\ cache' = cache
            /\ last_time' = last_time]_vars
    /\ [][last_time' # last_time => (pc = "return" /\ ret'[1].kind = "return")]_vars
    /\ []((pc = "idle" /\ ret # None /\ ret[1].kind = "raise") =>
            ret[1].key \notin CacheKeys(cache))
    /\ [][(pc = "idle" /\ ret # None /\ ret[1].kind = "raise") =>
            ~(Hits /\ ret'[1].key = ret[1].key)]_vars
    /\ []((pc = "f" /\ InLog("sleep")) => now = last_time + wait_length)

\* a call has raised on malformed XML after an earlier call had returned; the
\* identical call is about to invoke the transport again, without having
\* slept, exactly one interval after the completion of the call that returned
C19_Witness ==
    /\ pc = "f"
    /\ ret # None
    /\ ret[1].kind = "raise"
    /\ ret[1].exc = "ParseError"
    /\ KeyOfCur = ret[1].key
    /\ last_time > 0
    /\ ~InLog("sleep")
    /\ now = last_time + wait_length

\* C20 (one cache, keyed by handler and arguments): a call through a handler
\* hits only on an entry stored by a call through that same handler with the
\* same arguments, and returns that entry's value; an entry stored through
\* another handler for the same arguments does not keep a call from missing;
\* and the capacity maxsize = 100 is one total for all handlers: a store into
\* the full cache evicts the least recently used entry, whichever handler stored it.
C20_SharedCache ==
    /\ [][Hits =>
            \E i \in 1..Len(cache) :
                /\ cache[i].key = <<caller'[1], ret'[1].key[2]>>
                /\ cache[i].val = ret'[1].val]_vars
    /\ [][(pc = "idle" /\ pc' = "rate_limited") =>
            \A i \in 1..Len(cache) : cache[i].key # <<caller'[1], cur'[1].args>>]_vars
    /\ [](\A i \in 1..Len(cache) : cache[i].key[1] \in { h.id : h \in Registered })
    /\ [](Len(cache) <= maxsize)
    /\ [][(pc = "return" /\ Len(cache) = maxsize) =>
            /\ Len(cache') = maxsize
            /\ cache[1].key \notin CacheKeys(cache')
            /\ cache'[maxsize].key = <<caller[1], cur[1].args>>]_vars

\* the entry stored through the first handler has been evicted by the stores
\* of the second: the cache is full of the second handler's entries, and the
\* first handler's repeated request for URL 1 is a miss
C20_Witness ==
    /\ pc = "rate_limited"
    /\ Len(cache) = maxsize
    /\ cur[1].self \in SharedA
    /\ CacheKey(cur[1].self, cur[1].args) \in { used[i] : i \in 1..Len(used) }
    /\ \A i \in 1..Len(cache) : cache[i].key[1] \in { h.id : h \in SharedB }

\* the transport calls of the latest cache misses of threads a and b started
\* less than one interval apart
StartsClose(a, b) ==
    /\ th[a].start # None
    /\ th[b].start # None
    /\ th[a].start[1] - th[b].start[1] < wait_length
    /\ th[b].start[1] - th[a].start[1] < wait_length

\* C17 (no mutual exclusion): with two concurrent callers the transport calls
\* of two cache misses can start less than the interval apart (the witness);
\* nothing but the order of the steps prevents it: each caller still starts its
\* transport call no earlier than one interval after the last_time it read, and
\* two transport calls start less than the interval apart only when each call
\* made its wait check before the other had written last_time.
C17_NoMutualExclusion ==
    /\ \A t \in Threads :
           th[t].start # None => th[t].start[1] >= th[t].seen + wait_length
    /\ \A a \in Threads, b \in Threads :
           (a # b /\ StartsClose(a, b)) => (th[a].overlap /\ th[b].overlap)

\* both threads have passed the wait check and are inside the transport call,
\* the two calls having started less than one interval apart
C17_Witness ==
    /\ th[1].pc = "get"
    /\ th[2].pc = "get"
    /\ StartsClose(1, 2)

====
